---------------------------- MODULE Spec2Model ----------------------------
(***************************************************************************)
(* Model of RockheadSnapOps.py: the two circumcenter functions and the two *)
(* operators (Cursor to Circumcenter, Look at Cursor) that call them.      *)
(*                                                                         *)
(* Arithmetic is exact.  An input position is an integer triple <<x,y,z>>. *)
(* A computed mathutils.Vector is a rational vector [n |-> <<x,y,z>>,      *)
(* d |-> k] standing for n/k, kept in lowest terms with k > 0, so that two *)
(* Vectors are equal exactly when their records are equal.                 *)
(***************************************************************************)
EXTENDS Integers, Sequences, FiniteSets

VARIABLES
    object,               \* context.object: None or [type, mode, matrix_world]
    selected_verts,       \* bm.verts with v.select: local coordinates v.co
    selected_objects,     \* context.selected_objects: [location, rotation_euler]
    selected_pose_bones,  \* context.selected_pose_bones: bone.head
    selected_bones,       \* context.selected_bones: bone.head_local
    cursor,               \* context.scene.cursor.location
    ret                   \* what the last call handed back to the host

vars == <<object, selected_verts, selected_objects, selected_pose_bones,
          selected_bones, cursor, ret>>

scene == <<object, selected_verts, selected_objects, selected_pose_bones,
           selected_bones, cursor>>

---------------------------------------------------------------------------
(* Bounds of the model. *)

\* The points fed to the circumcenter functions lie on the integer grid, at
\* most MaxCoord unit steps from the origin.
MaxCoord == 2

\* Largest number of selected entities of one kind.
MaxSel == 5

---------------------------------------------------------------------------
(* Python values. *)

None == [none |-> TRUE]

Raise(e) == [exc |-> e]

IsRaise(r) == "exc" \in DOMAIN r

IsVector(r) == "n" \in DOMAIN r

\* try: center = ... except <the error raised>: return None
except_None(center) == IF IsRaise(center) THEN None ELSE center

---------------------------------------------------------------------------
(* mathutils.Vector arithmetic. *)

Abs(i) == IF i < 0 THEN -i ELSE i

RECURSIVE GCD(_, _)
GCD(i, j) == IF j = 0 THEN i ELSE GCD(j, i % j)

VecSub(p, q) == <<p[1] - q[1], p[2] - q[2], p[3] - q[3]>>

VecAdd(p, q) == <<p[1] + q[1], p[2] + q[2], p[3] + q[3]>>

VecScale(k, p) == <<k * p[1], k * p[2], k * p[3]>>

dot(p, q) == p[1] * q[1] + p[2] * q[2] + p[3] * q[3]

length_squared(p) == dot(p, p)

\* The Vector n/k in lowest terms (k # 0).
Vector(n, k) ==
    LET g == GCD(GCD(Abs(n[1]), Abs(n[2])), GCD(Abs(n[3]), Abs(k)))
        s == IF k < 0 THEN -1 ELSE 1
    IN  [n |-> <<(s * n[1]) \div g, (s * n[2]) \div g, (s * n[3]) \div g>>,
         d |-> (s * k) \div g]

\* Vector / scalar: mathutils raises ZeroDivisionError on a zero divisor.
VecDiv(n, k) == IF k = 0 THEN Raise("ZeroDivisionError") ELSE Vector(n, k)

---------------------------------------------------------------------------
(* calculate_circumcenter_3d *)

barycentric_to_world(p1, p2, p3, u, v, w) ==
    VecDiv(VecAdd(VecAdd(VecScale(u, p1), VecScale(v, p2)), VecScale(w, p3)),
           u + v + w)

\* The variant without the colinear branch of line 33: the division is reached
\* with a zero divisor and the except clauses turn it into None.
calculate_circumcenter_3d_unguarded(p1, p2, p3) ==
    LET a == VecSub(p3, p2)
        b == VecSub(p1, p3)
        c == VecSub(p2, p1)
        u == length_squared(a) * dot(b, c)
        v == length_squared(b) * dot(c, a)
        w == length_squared(c) * dot(b, a)
    IN  except_None(barycentric_to_world(p1, p2, p3, u, v, w))

\* The variant that weights p3 with a.b taken with the wrong sign.
calculate_circumcenter_3d_badweight(p1, p2, p3) ==
    LET a == VecSub(p3, p2)
        b == VecSub(p1, p3)
        c == VecSub(p2, p1)
        u == length_squared(a) * dot(b, c)
        v == length_squared(b) * dot(c, a)
        w == length_squared(c) * dot(b, c)
    IN  IF (u + v + w) = 0
        THEN Raise("NameError")
        ELSE except_None(barycentric_to_world(p1, p2, p3, u, v, w))

\* Line 34 calls the bare name report, which the module neither defines nor
\* imports (lines 1-6): evaluating it raises NameError, so the return of line 35
\* is not reached.
calculate_circumcenter_3d(p1, p2, p3) ==
    LET a == VecSub(p3, p2)
        b == VecSub(p1, p3)
        c == VecSub(p2, p1)
        u == length_squared(a) * dot(b, c)
        v == length_squared(b) * dot(c, a)
        w == length_squared(c) * dot(b, a)
    IN  IF (u + v + w) = 0
        THEN Raise("NameError")
        ELSE except_None(barycentric_to_world(p1, p2, p3, u, v, w))

---------------------------------------------------------------------------
(* calculate_circumcenter_4d *)

det3(r1, r2, r3) ==
      r1[1] * (r2[2] * r3[3] - r2[3] * r3[2])
    - r1[2] * (r2[1] * r3[3] - r2[3] * r3[1])
    + r1[3] * (r2[1] * r3[2] - r2[2] * r3[1])

\* Row i of M with column k replaced by the right-hand side.
WithColumn(row, k, x) == [j \in 1..3 |-> IF j = k THEN x ELSE row[j]]

\* np.linalg.solve(M, RHS): the unique solution, LinAlgError on a singular M.
linalg_solve(M, RHS) ==
    LET D == det3(M[1], M[2], M[3])
        Dk(k) == det3(WithColumn(M[1], k, RHS[1]),
                      WithColumn(M[2], k, RHS[2]),
                      WithColumn(M[3], k, RHS[3]))
    IN  IF D = 0
        THEN Raise("LinAlgError")
        ELSE Vector(<<Dk(1), Dk(2), Dk(3)>>, D)

\* The variant whose third equation pairs D with A instead of with C on the
\* right-hand side only.
calculate_circumcenter_4d_badrhs(A, B, C, D) ==
    LET M   == << VecScale(2, VecSub(B, A)),
                  VecScale(2, VecSub(C, B)),
                  VecScale(2, VecSub(D, C)) >>
        RHS == << length_squared(B) - length_squared(A),
                  length_squared(C) - length_squared(B),
                  length_squared(D) - length_squared(A) >>
    IN  except_None(linalg_solve(M, RHS))

calculate_circumcenter_4d(A, B, C, D) ==
    LET M   == << VecScale(2, VecSub(B, A)),
                  VecScale(2, VecSub(C, B)),
                  VecScale(2, VecSub(D, C)) >>
        RHS == << length_squared(B) - length_squared(A),
                  length_squared(C) - length_squared(B),
                  length_squared(D) - length_squared(C) >>
    IN  except_None(linalg_solve(M, RHS))


---------------------------------------------------------------------------
(* MoveToCircumcenterOperator *)

\* bmesh.from_edit_mesh(obj.data) hands back the edit mesh of a Mesh datablock
\* (here: its selected vertices) and raises TypeError for any other datablock
\* (an Armature, a Curve).
from_edit_mesh(obj) ==
    IF obj.type = "MESH" THEN [verts |-> selected_verts] ELSE Raise("TypeError")

MoveToCircumcenterOperator_poll ==
    IF object = None THEN "False"
    ELSE IF object.mode = "EDIT" /\ IsRaise(from_edit_mesh(object))
         THEN "TypeError"
    ELSE IF object.mode = "EDIT" /\ Len(from_edit_mesh(object).verts) \in {3, 4}
         THEN "True"
    ELSE IF object.mode = "OBJECT" /\ Len(selected_objects) \in {3, 4}
         THEN "True"
    ELSE IF object.type = "ARMATURE" /\ object.mode = "POSE"
            /\ Len(selected_pose_bones) \in {3, 4}
         THEN "True"
    ELSE IF object.type = "ARMATURE" /\ object.mode = "EDIT"
            /\ Len(selected_bones) \in {3, 4}
         THEN "True"
    ELSE "False"

\* obj.matrix_world @ co, with matrix_world a translation.
matrix_world_at(obj, co) == VecAdd(obj.matrix_world, co)

World(obj, cos) == [i \in 1..Len(cos) |-> matrix_world_at(obj, cos[i])]

Locations(objs) == [i \in 1..Len(objs) |-> objs[i].location]

\* The variant that reads the edit bones for an armature in pose mode.
gather_points_wrongbones ==
    LET p0 == << >>
        p1 == IF object.type = "MESH" /\ object.mode = "EDIT"
              THEN World(object, selected_verts) ELSE p0
        p2 == IF object.mode = "OBJECT"
              THEN Locations(selected_objects) ELSE p1
    IN  IF object.type = "ARMATURE" /\ object.mode = "POSE"
        THEN World(object, selected_bones)
        ELSE IF object.type = "ARMATURE" /\ object.mode = "EDIT"
        THEN World(object, selected_bones)
        ELSE p2

\* Lines 129-147 of execute: the point list p.
gather_points ==
    LET p0 == << >>
        p1 == IF object.type = "MESH" /\ object.mode = "EDIT"
              THEN World(object, selected_verts) ELSE p0
        p2 == IF object.mode = "OBJECT"
              THEN Locations(selected_objects) ELSE p1
    IN  IF object.type = "ARMATURE" /\ object.mode = "POSE"
        THEN World(object, selected_pose_bones)
        ELSE IF object.type = "ARMATURE" /\ object.mode = "EDIT"
        THEN World(object, selected_bones)
        ELSE p2

Unbound == [unbound |-> TRUE]

Report(level, msg) == [level |-> level, msg |-> msg]

\* (circumcenter - p).length, kept as its square num/den in lowest terms.
Reduced(num, den) ==
    [num |-> num \div GCD(num, den), den |-> den \div GCD(num, den)]

Distance2(center, p) ==
    Reduced(length_squared(VecSub(center.n, VecScale(center.d, p))),
            center.d * center.d)

DistanceReports(center, p) ==
    [i \in 1..Len(p) |->
        [level |-> "INFO", msg |-> "Distance from circumcenter to point",
         i |-> i - 1, length2 |-> Distance2(center, p[i])]]

\* Lines 156-157: the warning follows a fallback that produced a point.
fallback_reports(c) ==
    IF IsRaise(c) \/ c = None
    THEN << >>
    ELSE << Report("WARNING", "The 4 points are coplanar. Using 3D circumcenter instead!") >>

Computed(c, reports) == [circumcenter |-> c, reports |-> reports]

\* Lines 155-157, c3 being what calculate_circumcenter_3d returned.
after_fallback(c3) == Computed(c3, fallback_reports(c3))

\* Lines 154-157, c4 being what calculate_circumcenter_4d returned.
after_4d(p, c4) ==
    IF c4 = None
    THEN after_fallback(calculate_circumcenter_3d(p[1], p[2], p[3]))
    ELSE Computed(c4, << >>)

\* Lines 149-157 of execute: the value bound to circumcenter (Unbound when no
\* branch assigns it, an exception when a call raises) and the reports made.
circumcenter_of(p) ==
    IF Len(p) = 3
    THEN Computed(calculate_circumcenter_3d(p[1], p[2], p[3]), << >>)
    ELSE IF Len(p) = 4
    THEN after_4d(p, calculate_circumcenter_4d(p[1], p[2], p[3], p[4]))
    ELSE Computed(Unbound, << >>)

\* Lines 159-169 of execute: the status handed to the host (or the exception
\* that escapes), the reports made, the cursor afterwards.
finish_with(p, c, reports) ==
    IF IsRaise(c)
    THEN [status |-> c.exc, reports |-> reports, cursor |-> cursor]
    ELSE IF c = Unbound
    THEN [status |-> "UnboundLocalError", reports |-> reports,
          cursor |-> cursor]
    ELSE IF c = None
    THEN [status |-> "CANCELLED",
          reports |-> reports \o
             << Report("ERROR", "Could not calculate circumcenter. Are the points colinear?") >>,
          cursor |-> cursor]
    ELSE [status |-> "FINISHED",
          reports |-> reports \o DistanceReports(c, p),
          cursor |-> c]

finish(p, r) == finish_with(p, r.circumcenter, r.reports)

MoveToCircumcenterOperator_execute(p) == finish(p, circumcenter_of(p))

---------------------------------------------------------------------------
(* LookAtCursorOperator *)

LookAtCursorOperator_poll == Len(selected_objects) > 0

\* cursor_location - obj.location, or its reverse, up to the positive factor
\* cursor.d.
Direction(loc, reverse) ==
    LET d == VecSub(cursor.n, VecScale(cursor.d, loc))
    IN  IF reverse THEN VecScale(-1, d) ELSE d

\* direction.normalize(): the unit vector, held as the primitive integer
\* vector of the same ray; the zero vector stays zero.
normalize(v) ==
    LET g == GCD(GCD(Abs(v[1]), Abs(v[2])), Abs(v[3]))
    IN  IF g = 0 THEN v ELSE <<v[1] \div g, v[2] \div g, v[3] \div g>>

unit_qt == [unit |-> TRUE]

\* direction.to_track_quat(track, up).  For the zero vector the handler of
\* lines 224-226 expects ValueError, while mathutils' vec_to_quat returns the
\* unit quaternion: zero_raises chooses between the two.
to_track_quat(direction, track, up, zero_raises) ==
    IF direction = <<0, 0, 0>>
    THEN IF zero_raises THEN Raise("ValueError") ELSE unit_qt
    ELSE [track |-> track, up |-> up, dir |-> direction]

to_euler(q) == [euler |-> q]

\* Lines 218-223: the up axis that goes with the tracked axis.
UpAxis(axis) == IF axis = "Z" THEN "Y" ELSE "Z"

obj_rot(loc, axis, reverse, zero_raises) ==
    to_track_quat(normalize(Direction(loc, reverse)), axis, UpAxis(axis),
                  zero_raises)

\* The loop of lines 210-228 from object i on, objs holding the objects as
\* the earlier iterations left them.
RECURSIVE look_loop(_, _, _, _, _)
look_loop(i, objs, axis, reverse, zero_raises) ==
    IF i > Len(objs)
    THEN [status |-> "FINISHED", objects |-> objs, reports |-> << >>]
    ELSE LET q == obj_rot(objs[i].location, axis, reverse, zero_raises)
         IN  IF IsRaise(q)
             THEN [status |-> "CANCELLED", objects |-> objs,
                   reports |-> << Report("ERROR", "Could not point object to cursor. Are the object and cursor in the same location?") >>]
             ELSE look_loop(i + 1,
                            [objs EXCEPT ![i].rotation_euler = to_euler(q)],
                            axis, reverse, zero_raises)

LookAtCursorOperator_execute(axis, reverse, zero_raises) ==
    look_loop(1, selected_objects, axis, reverse, zero_raises)

---------------------------------------------------------------------------
(* The scenes the operators are invoked on. *)

Types == {"MESH", "ARMATURE", "CURVE"}

\* The modes each object type can be in.
ModesOf(t) ==
    IF t = "MESH" THEN {"OBJECT", "EDIT", "SCULPT"}
    ELSE IF t = "ARMATURE" THEN {"OBJECT", "EDIT", "POSE"}
    ELSE {"OBJECT", "EDIT"}

Origins == {<<0, 0, 0>>, <<1, 0, 0>>}

Axes == {"X", "Y", "Z"}

InitialRotation == [euler |-> [user |-> TRUE]]

\* The k-th selected object of a scene and the k-th selected sub-element
\* (vertex or bone) of its active object.
ObjectAt(k) == <<k % 3, (k \div 3) % 3, 0>>

ElementAt(k) == <<0, k % 3, 1 + ((k \div 3) % 2)>>

ObjectsAt(locs) ==
    [i \in 1..Len(locs) |->
        [location |-> locs[i], rotation_euler |-> InitialRotation]]

FirstObjects(n) == ObjectsAt([k \in 1..n |-> ObjectAt(k)])

FirstElements(n) == [k \in 1..n |-> ElementAt(k)]

CursorSites == {<<0, 0, 0>>, ObjectAt(2)}

Idle == [op |-> "none", status |-> "idle", reports |-> << >>]

Init ==
    /\ \E n \in 0..MaxSel : selected_objects = FirstObjects(n)
    /\ \/ object = None
       \/ \E t \in Types : \E m \in ModesOf(t) : \E o \in Origins :
             object = [type |-> t, mode |-> m, matrix_world |-> o]
    /\ \E n \in 0..MaxSel :
          /\ selected_verts =
                IF object # None /\ object.type = "MESH" /\ object.mode = "EDIT"
                THEN FirstElements(n) ELSE << >>
          /\ selected_pose_bones =
                IF object # None /\ object.type = "ARMATURE" /\ object.mode = "POSE"
                THEN FirstElements(n) ELSE << >>
          /\ selected_bones =
                IF object # None /\ object.type = "ARMATURE" /\ object.mode = "EDIT"
                THEN FirstElements(n) ELSE << >>
    /\ \E c \in CursorSites : cursor = Vector(c, 1)
    /\ ret = Idle

---------------------------------------------------------------------------
(* The calls the host makes. *)

PollMove ==
    /\ ret' = [op |-> "circumcenter.poll",
               status |-> MoveToCircumcenterOperator_poll, reports |-> << >>]
    /\ UNCHANGED scene

\* The host runs execute only on a context poll accepts.
ExecMove ==
    /\ MoveToCircumcenterOperator_poll = "True"
    /\ \E r \in {MoveToCircumcenterOperator_execute(gather_points)} :
          /\ cursor' = r.cursor
          /\ ret' = [op |-> "circumcenter.execute", status |-> r.status,
                     reports |-> r.reports, p |-> gather_points]
    /\ UNCHANGED <<object, selected_verts, selected_objects,
                   selected_pose_bones, selected_bones>>

PollLook ==
    /\ ret' = [op |-> "look_at_cursor.poll",
               status |-> IF LookAtCursorOperator_poll THEN "True" ELSE "False",
               reports |-> << >>]
    /\ UNCHANGED scene

ExecLook ==
    /\ LookAtCursorOperator_poll
    /\ \E axis \in Axes : \E reverse \in BOOLEAN : \E zero_raises \in BOOLEAN :
          \E r \in {LookAtCursorOperator_execute(axis, reverse, zero_raises)} :
              /\ selected_objects' = r.objects
              /\ ret' = [op |-> "look_at_cursor.execute", status |-> r.status,
                         reports |-> r.reports, axis |-> axis,
                         reverse |-> reverse]
    /\ UNCHANGED <<object, selected_verts, selected_pose_bones,
                   selected_bones, cursor>>

Next == PollMove \/ ExecMove \/ PollLook \/ ExecLook

Spec == Init /\ [][Next]_vars

---------------------------------------------------------------------------
(* Cursor to Circumcenter on object selections laid out on a grid. *)

Grid ==
    {p \in (0..MaxCoord) \X (0..MaxCoord) \X (0..MaxCoord) :
        p[1] + p[2] + p[3] <= MaxCoord}

InitGeom ==
    /\ object = [type |-> "MESH", mode |-> "OBJECT", matrix_world |-> <<0, 0, 0>>]
    /\ \/ \E p1 \in Grid : \E p2 \in Grid : \E p3 \in Grid :
             selected_objects = ObjectsAt(<<p1, p2, p3>>)
       \/ \E A \in Grid : \E B \in Grid : \E C \in Grid : \E D \in Grid :
             selected_objects = ObjectsAt(<<A, B, C, D>>)
    /\ selected_verts = << >>
    /\ selected_pose_bones = << >>
    /\ selected_bones = << >>
    /\ cursor = Vector(<<0, 0, 0>>, 1)
    /\ ret = Idle

NextGeom == ExecMove

SpecGeom == InitGeom /\ [][NextGeom]_vars

---------------------------------------------------------------------------
(* What the claims speak of. *)

cross(p, q) == <<p[2] * q[3] - p[3] * q[2],
                 p[3] * q[1] - p[1] * q[3],
                 p[1] * q[2] - p[2] * q[1]>>

Collinear(p1, p2, p3) == cross(VecSub(p2, p1), VecSub(p3, p1)) = <<0, 0, 0>>

Coplanar(A, B, C, D) ==
    dot(VecSub(B, A), cross(VecSub(C, A), VecSub(D, A))) = 0

\* The squared distance from the Vector c to the point p, times c.d squared.
ScaledDistance2(c, p) == length_squared(VecSub(c.n, VecScale(c.d, p)))

Equidistant(c, ps) ==
    \A i \in 1..Len(ps) : ScaledDistance2(c, ps[i]) = ScaledDistance2(c, ps[1])

\* c is a point (not None, not an exception) at one distance from all of ps.
IsCircumcenter(c, ps) == IsVector(c) /\ Equidistant(c, ps)

Mean3(p1, p2, p3) == Vector(VecAdd(VecAdd(p1, p2), p3), 3)

Selected == Locations(selected_objects)

Executed(op) == ret.op = op

HasReport(level) == \E i \in 1..Len(ret.reports) : ret.reports[i].level = level

Example3 == << <<0, 0, 0>>, <<2, 0, 0>>, <<0, 2, 0>> >>

Example4 == << <<0, 0, 0>>, <<2, 0, 0>>, <<0, 2, 0>>, <<0, 0, 2>> >>

\* The entities of the active selection context, in world space.
ContextPositions ==
    IF object = None THEN << >>
    ELSE IF object.mode = "OBJECT" THEN Locations(selected_objects)
    ELSE IF object.type = "MESH" /\ object.mode = "EDIT"
         THEN World(object, selected_verts)
    ELSE IF object.type = "ARMATURE" /\ object.mode = "POSE"
         THEN World(object, selected_pose_bones)
    ELSE IF object.type = "ARMATURE" /\ object.mode = "EDIT"
         THEN World(object, selected_bones)
    ELSE << >>

Returns3(ps, c) ==
    ~Collinear(ps[1], ps[2], ps[3]) =>
        /\ IsCircumcenter(c, ps)
        /\ (ps = Example3 => c = Vector(<<1, 1, 0>>, 1))

Holds3(ps) ==
    Len(ps) = 3 => Returns3(ps, calculate_circumcenter_3d(ps[1], ps[2], ps[3]))

\* C1: for three non-collinear points calculate_circumcenter_3d returns a point
\* at the same distance from all three, and (1,1,0) for (0,0,0), (2,0,0),
\* (0,2,0).
Thm_C1 == Holds3(Selected)

\* The example of C1 has been run: the cursor stands at (1,1,0), at distance
\* sqrt(2) from each point.
Wit_C1 ==
    /\ Executed("circumcenter.execute")
    /\ ret.status = "FINISHED"
    /\ ret.p = Example3
    /\ cursor = Vector(<<1, 1, 0>>, 1)
    /\ \A i \in 1..3 : ret.reports[i].length2 = [num |-> 2, den |-> 1]

Returns4(ps, c) ==
    ~Coplanar(ps[1], ps[2], ps[3], ps[4]) =>
        /\ IsCircumcenter(c, ps)
        /\ (ps = Example4 => c = Vector(<<1, 1, 1>>, 1))

Holds4(ps) ==
    Len(ps) = 4 =>
        Returns4(ps, calculate_circumcenter_4d(ps[1], ps[2], ps[3], ps[4]))

\* C2: for four non-coplanar points calculate_circumcenter_4d returns a point,
\* never None, at the same distance from all four, and (1,1,1) for (0,0,0),
\* (2,0,0), (0,2,0), (0,0,2).
Thm_C2 == Holds4(Selected)

\* The example of C2 has been run: the cursor stands at (1,1,1) and no
\* fallback was reported.
Wit_C2 ==
    /\ Executed("circumcenter.execute")
    /\ ret.status = "FINISHED"
    /\ ret.p = Example4
    /\ cursor = Vector(<<1, 1, 1>>, 1)
    /\ ~HasReport("WARNING")

\* C3: for three collinear points calculate_circumcenter_3d returns their
\* arithmetic mean and a WARNING is emitted.
CE_C3 ==
    (Executed("circumcenter.execute") /\ Len(ret.p) = 3
       /\ Collinear(ret.p[1], ret.p[2], ret.p[3])) =>
        /\ calculate_circumcenter_3d(ret.p[1], ret.p[2], ret.p[3])
              = Mean3(ret.p[1], ret.p[2], ret.p[3])
        /\ HasReport("WARNING")

\* C4: for four coplanar points calculate_circumcenter_4d returns None and
\* execute puts the cursor where calculate_circumcenter_3d puts the first
\* three, reports a WARNING and returns FINISHED.
CE_C4 ==
    (Executed("circumcenter.execute") /\ Len(ret.p) = 4
       /\ Coplanar(ret.p[1], ret.p[2], ret.p[3], ret.p[4])) =>
        /\ calculate_circumcenter_4d(ret.p[1], ret.p[2], ret.p[3], ret.p[4]) = None
        /\ cursor = calculate_circumcenter_3d(ret.p[1], ret.p[2], ret.p[3])
        /\ HasReport("WARNING")
        /\ ret.status = "FINISHED"

\* C5: MoveToCircumcenterOperator.poll returns True if and only if the active
\* selection context holds exactly 3 or 4 selected entities.
CE_C5 ==
    Executed("circumcenter.poll") =>
        (ret.status = "True" <=> Len(ContextPositions) \in {3, 4})

\* C6: in a batch of LookAtCursorOperator.execute an object standing on the
\* cursor is skipped with a report; every other selected object gets its
\* rotation set and the call returns FINISHED when there is such an object.
CE_C6 ==
    (Executed("look_at_cursor.execute")
       /\ \E i \in 1..Len(selected_objects) :
             Vector(selected_objects[i].location, 1) = cursor) =>
        /\ Len(ret.reports) > 0
        /\ \A j \in 1..Len(selected_objects) :
              Vector(selected_objects[j].location, 1) # cursor =>
                 selected_objects[j].rotation_euler =
                    to_euler(obj_rot(selected_objects[j].location, ret.axis,
                                     ret.reverse, FALSE))
        /\ (\E j \in 1..Len(selected_objects) :
               Vector(selected_objects[j].location, 1) # cursor)
              => ret.status = "FINISHED"

CE_C8 ==
    (Executed("circumcenter.execute") \/ Executed("look_at_cursor.execute")) =>
        ret.status \in {"FINISHED", "CANCELLED"}

\* C9: whenever poll of MoveToCircumcenterOperator returns True, execute
\* gathers exactly the positions of the entities of the context poll counted,
\* 3 or 4 of them, so that circumcenter is bound when line 159 reads it.
Thm_C9 ==
    MoveToCircumcenterOperator_poll = "True" =>
        /\ gather_points = ContextPositions
        /\ Len(gather_points) \in {3, 4}
        /\ MoveToCircumcenterOperator_execute(gather_points).status
              # "UnboundLocalError"

\* Execute has run on the four selected pose bones of an armature.
Wit_C9 ==
    /\ Executed("circumcenter.execute")
    /\ object.type = "ARMATURE" /\ object.mode = "POSE"
    /\ Len(selected_pose_bones) = 4
    /\ ret.p = World(object, selected_pose_bones)
    /\ ret.status = "FINISHED"

NeverNone(ps) ==
    Len(ps) \in {3, 4} => calculate_circumcenter_3d(ps[1], ps[2], ps[3]) # None

\* C10: calculate_circumcenter_3d never returns None, and execute on 3 or 4
\* points never reports ERROR and never returns CANCELLED.
Thm_C10 ==
    /\ NeverNone(Selected)
    /\ Executed("circumcenter.execute") =>
          (ret.status # "CANCELLED" /\ ~HasReport("ERROR"))

\* Execute has run on four points whose 4-point solve fails and whose first
\* three are collinear, the one case left for the ERROR path.
Wit_C10 ==
    /\ Executed("circumcenter.execute")
    /\ Len(ret.p) = 4
    /\ calculate_circumcenter_4d(ret.p[1], ret.p[2], ret.p[3], ret.p[4]) = None
    /\ Collinear(ret.p[1], ret.p[2], ret.p[3])
    /\ ret.status # "CANCELLED"

=============================================================================
